---- MODULE Spec2Model ----
(***************************************************************************)
(* Model of the AI Research Scout pipeline (src/src/executor.py,           *)
(* src/src/planner.py): the deterministic JSON sanitizers, the URL          *)
(* normalizer, and the Planner -> ParallelResearch -> Analyst coordination. *)
(*                                                                         *)
(* Text is a sequence of characters; a character is a one-character string *)
(* (the backtick, which cannot be written inside a TLA+ string, is BT).     *)
(* A Python/JSON value is a tagged tuple:                                  *)
(*   <<"null">>  <<"bool", b>>  <<"num", n>>  <<"str", chars>>             *)
(*   <<"arr", <<v1, ..., vn>> >>                                           *)
(*   <<"obj", << <<key1, v1>>, ..., <<keyn, vn>> >> >>  (insertion order)  *)
(***************************************************************************)
EXTENDS Integers, Sequences, FiniteSets, TLC

----------------------------------------------------------------------------
(* Characters and Python str primitives                                    *)

BT == "<backtick>"
DQ == "\""
BSL == "\\"

\* str.strip() with no argument strips Python whitespace.
PyWhitespace == {" ", "\t", "\n", "\r", "\f"}

\* json.decoder.WHITESPACE: the four JSON whitespace characters.
JsonWhitespace == {" ", "\t", "\n", "\r"}

\* Characters below 0x20 that the alphabet of the model contains.
ControlChars == {"\t", "\n", "\r", "\f"}

Digits == {"0", "1", "2", "3", "4", "5", "6", "7", "8", "9"}

Fence == <<BT, BT, BT>>
FenceJson == <<BT, BT, BT, "j", "s", "o", "n">>

\* s[i:] and s[:j] with 0-based Python offsets.
SliceFrom(s, i) == SubSeq(s, i + 1, Len(s))
SliceTo(s, j) == SubSeq(s, 1, j)

RECURSIVE lstrip(_)
lstrip(s) ==
  IF s # <<>> /\ Head(s) \in PyWhitespace THEN lstrip(Tail(s)) ELSE s

RECURSIVE rstrip(_)
rstrip(s) ==
  IF s # <<>> /\ s[Len(s)] \in PyWhitespace
  THEN rstrip(SubSeq(s, 1, Len(s) - 1))
  ELSE s

strip(s) == rstrip(lstrip(s))

startswith(s, p) == Len(s) >= Len(p) /\ SubSeq(s, 1, Len(p)) = p

endswith(s, p) ==
  Len(s) >= Len(p) /\ SubSeq(s, Len(s) - Len(p) + 1, Len(s)) = p

\* str.find(sub): 0-based offset of the first occurrence, -1 when absent.
find(s, p) ==
  LET hits == {i \in 0..(Len(s) - Len(p)) : SubSeq(s, i + 1, i + Len(p)) = p}
  IN IF hits = {} THEN -1
     ELSE CHOOSE i \in hits : \A j \in hits : i <= j

\* str.replace(old, new, 1): only the first occurrence, wherever it is.
replace_first(s, old, new) ==
  LET at == find(s, old)
  IN IF at = -1 THEN s
     ELSE SliceTo(s, at) \o new \o SliceFrom(s, at + Len(old))

----------------------------------------------------------------------------
(* Python values                                                            *)

JNull == <<"null">>
JBool(b) == <<"bool", b>>
JNum(n) == <<"num", n>>
JStr(s) == <<"str", s>>
JArr(items) == <<"arr", items>>
JObj(pairs) == <<"obj", pairs>>

IsStr(v) == v[1] = "str"
IsArr(v) == v[1] = "arr"
IsObj(v) == v[1] = "obj"

\* Python truthiness: None, False, 0, "", [] and {} are falsy.
Truthy(v) ==
  CASE v[1] = "null" -> FALSE
    [] v[1] = "bool" -> v[2]
    [] v[1] = "num" -> v[2] # 0
    [] OTHER -> v[2] # <<>>

----------------------------------------------------------------------------
(* json.dumps(obj, ensure_ascii=False, separators=(",", ":"))               *)

DigitChar(d) ==
  CASE d = 0 -> "0" [] d = 1 -> "1" [] d = 2 -> "2" [] d = 3 -> "3"
    [] d = 4 -> "4" [] d = 5 -> "5" [] d = 6 -> "6" [] d = 7 -> "7"
    [] d = 8 -> "8" [] d = 9 -> "9"

DigitVal(c) == CHOOSE d \in 0..9 : DigitChar(d) = c

RECURSIVE NatText(_)
NatText(n) ==
  IF n < 10 THEN <<DigitChar(n)>>
  ELSE NatText(n \div 10) \o <<DigitChar(n % 10)>>

IntText(n) == IF n < 0 THEN <<"-">> \o NatText(0 - n) ELSE NatText(n)

\* json.encoder.ESCAPE_DCT for the characters of the alphabet.
EscapeChar(c) ==
  CASE c = DQ -> <<BSL, DQ>>
    [] c = BSL -> <<BSL, BSL>>
    [] c = "\n" -> <<BSL, "n">>
    [] c = "\r" -> <<BSL, "r">>
    [] c = "\t" -> <<BSL, "t">>
    [] c = "\f" -> <<BSL, "f">>
    [] OTHER -> <<c>>

RECURSIVE EscapeAll(_)
EscapeAll(s) ==
  IF s = <<>> THEN <<>> ELSE EscapeChar(Head(s)) \o EscapeAll(Tail(s))

EncodeString(s) == <<DQ>> \o EscapeAll(s) \o <<DQ>>

RECURSIVE dumps(_)
RECURSIVE DumpItems(_)
RECURSIVE DumpPairs(_)

DumpItems(items) ==
  IF items = <<>> THEN <<>>
  ELSE dumps(Head(items))
         \o (IF Len(items) > 1 THEN <<",">> ELSE <<>>)
         \o DumpItems(Tail(items))

DumpPairs(pairs) ==
  IF pairs = <<>> THEN <<>>
  ELSE EncodeString(Head(pairs)[1]) \o <<":">> \o dumps(Head(pairs)[2])
         \o (IF Len(pairs) > 1 THEN <<",">> ELSE <<>>)
         \o DumpPairs(Tail(pairs))

dumps(v) ==
  CASE v[1] = "null" -> <<"n", "u", "l", "l">>
    [] v[1] = "bool" ->
         IF v[2] THEN <<"t", "r", "u", "e">> ELSE <<"f", "a", "l", "s", "e">>
    [] v[1] = "num" -> IntText(v[2])
    [] v[1] = "str" -> EncodeString(v[2])
    [] v[1] = "arr" -> <<"[">> \o DumpItems(v[2]) \o <<"]">>
    [] v[1] = "obj" -> <<"{">> \o DumpPairs(v[2]) \o <<"}">>

----------------------------------------------------------------------------
(* json.JSONDecoder().raw_decode(s): decode one value at offset 0 and      *)
(* ignore what follows it.  A result is [ok, val, end]; end is the 1-based *)
(* position after the value.  Numbers are the integers (the inputs of the  *)
(* model hold no fraction, exponent, NaN or Infinity).                      *)

Fail == [ok |-> FALSE, val |-> JNull, end |-> 0]
Ok(v, e) == [ok |-> TRUE, val |-> v, end |-> e]

CharAt(s, i) == IF i >= 1 /\ i <= Len(s) THEN s[i] ELSE "<eof>"

Matches(s, i, w) ==
  i + Len(w) - 1 <= Len(s) /\ SubSeq(s, i, i + Len(w) - 1) = w

RECURSIVE SkipWs(_, _)
SkipWs(s, i) ==
  IF CharAt(s, i) \in JsonWhitespace THEN SkipWs(s, i + 1) ELSE i

\* dict(pairs): a repeated key keeps its first position and its last value.
DictSet(pairs, k, v) ==
  IF \E i \in 1..Len(pairs) : pairs[i][1] = k
  THEN [i \in 1..Len(pairs) |->
          IF pairs[i][1] = k THEN <<k, v>> ELSE pairs[i]]
  ELSE Append(pairs, <<k, v>>)

\* py_scanstring, strict: i is the position after the opening quote.
RECURSIVE ScanString(_, _, _)
ScanString(s, i, acc) ==
  LET c == CharAt(s, i)
      e == CharAt(s, i + 1)
  IN CASE c = "<eof>" -> Fail
       [] c = DQ -> Ok(acc, i + 1)
       [] c \in ControlChars -> Fail
       [] c = BSL ->
            CASE e = DQ -> ScanString(s, i + 2, Append(acc, DQ))
              [] e = BSL -> ScanString(s, i + 2, Append(acc, BSL))
              [] e = "/" -> ScanString(s, i + 2, Append(acc, "/"))
              [] e = "n" -> ScanString(s, i + 2, Append(acc, "\n"))
              [] e = "r" -> ScanString(s, i + 2, Append(acc, "\r"))
              [] e = "t" -> ScanString(s, i + 2, Append(acc, "\t"))
              [] e = "f" -> ScanString(s, i + 2, Append(acc, "\f"))
              [] OTHER -> Fail
       [] OTHER -> ScanString(s, i + 1, Append(acc, c))

RECURSIVE ScanDigits(_, _, _)
ScanDigits(s, i, n) ==
  IF CharAt(s, i) \in Digits
  THEN ScanDigits(s, i + 1, 10 * n + DigitVal(s[i]))
  ELSE Ok(JNum(n), i)

\* NUMBER_RE integer part: -?(0|[1-9][0-9]*)
ScanNumber(s, i) ==
  LET neg == CharAt(s, i) = "-"
      j == IF neg THEN i + 1 ELSE i
      r == IF CharAt(s, j) = "0" THEN Ok(JNum(0), j + 1)
           ELSE IF CharAt(s, j) \in Digits THEN ScanDigits(s, j, 0)
           ELSE Fail
  IN IF r.ok /\ neg THEN Ok(JNum(0 - r.val[2]), r.end) ELSE r

RECURSIVE ScanOnce(_, _)
RECURSIVE ScanElems(_, _, _)
RECURSIVE ScanMembers(_, _, _)

\* JSONArray after the first element position: value, then "," or "]".
ScanElems(s, i, acc) ==
  LET r == ScanOnce(s, i)
      j == SkipWs(s, r.end)
  IN IF ~r.ok THEN Fail
     ELSE IF CharAt(s, j) = "]" THEN Ok(JArr(Append(acc, r.val)), j + 1)
     ELSE IF CharAt(s, j) = ","
          THEN ScanElems(s, SkipWs(s, j + 1), Append(acc, r.val))
     ELSE Fail

\* JSONObject members: i is the position of the opening quote of a key.
ScanMembers(s, i, acc) ==
  LET k == ScanString(s, i + 1, <<>>)
      c == SkipWs(s, k.end)
      r == ScanOnce(s, SkipWs(s, c + 1))
      j == SkipWs(s, r.end)
      n == SkipWs(s, j + 1)
  IN IF CharAt(s, i) # DQ THEN Fail
     ELSE IF ~k.ok THEN Fail
     ELSE IF CharAt(s, c) # ":" THEN Fail
     ELSE IF ~r.ok THEN Fail
     ELSE IF CharAt(s, j) = "}"
          THEN Ok(JObj(DictSet(acc, k.val, r.val)), j + 1)
     ELSE IF CharAt(s, j) = ","
          THEN ScanMembers(s, n, DictSet(acc, k.val, r.val))
     ELSE Fail

ScanOnce(s, i) ==
  LET c == CharAt(s, i)
  IN CASE c = DQ ->
            LET r == ScanString(s, i + 1, <<>>)
            IN IF r.ok THEN Ok(JStr(r.val), r.end) ELSE Fail
       [] c = "{" ->
            LET j == SkipWs(s, i + 1)
            IN IF CharAt(s, j) = "}" THEN Ok(JObj(<<>>), j + 1)
               ELSE ScanMembers(s, j, <<>>)
       [] c = "[" ->
            LET j == SkipWs(s, i + 1)
            IN IF CharAt(s, j) = "]" THEN Ok(JArr(<<>>), j + 1)
               ELSE ScanElems(s, j, <<>>)
       [] Matches(s, i, <<"n", "u", "l", "l">>) ->
            Ok(JNull, i + 4)
       [] Matches(s, i, <<"t", "r", "u", "e">>) ->
            Ok(JBool(TRUE), i + 4)
       [] Matches(s, i, <<"f", "a", "l", "s", "e">>) ->
            Ok(JBool(FALSE), i + 5)
       [] c \in Digits \cup {"-"} -> ScanNumber(s, i)
       [] OTHER -> Fail

\* Variant: json.loads, which rejects text after the first value.
raw_decode_whole(s) ==
  LET r == ScanOnce(s, 1)
  IN IF r.ok /\ SkipWs(s, r.end) = Len(s) + 1 THEN r ELSE Fail

raw_decode(s) == ScanOnce(s, 1)

----------------------------------------------------------------------------
(* Deterministic sanitizers, src/src/executor.py                            *)

\* The outcome of a call: a returned value, or an exception leaving it.
Return(v) == [raised |-> FALSE, val |-> v]
Raise == [raised |-> TRUE, val |-> JNull]

\* _extract_first_json_value(text)
_extract_first_json_value(text) ==
  IF ~Truthy(text) \/ ~IsStr(text) THEN Raise
  ELSE
    LET s0 == strip(text[2])
        s1 == IF startswith(s0, Fence)
              THEN lstrip(SliceFrom(replace_first(s0, FenceJson, Fence), 3))
              ELSE s0
        s2 == IF endswith(s1, Fence)
              THEN rstrip(SliceTo(s1, Len(s1) - 3))
              ELSE s1
        first_curly == find(s2, <<"{">>)
        first_square == find(s2, <<"[">>)
        starts == {p \in {first_curly, first_square} : p # -1}
        start == CHOOSE p \in starts : \A q \in starts : p <= q
        r == raw_decode(SliceFrom(s2, start))
    IN IF starts = {} THEN Raise
       ELSE IF ~r.ok THEN Raise
       ELSE Return(r.val)

TrailingPunct == {")", "]", ".", ",", ";", DQ, "'"}

RECURSIVE StripTrailingPunct(_)
StripTrailingPunct(u) ==
  IF u # <<>> /\ u[Len(u)] \in TrailingPunct
  THEN StripTrailingPunct(SubSeq(u, 1, Len(u) - 1))
  ELSE u

\* _normalize_url(u): strip, drop trailing punctuation, strip.
_normalize_url(u) == strip(StripTrailingPunct(strip(u)))

UrlKey == <<"u", "r", "l">>

\* Variant: the key test is lost and every string entry is normalized.
RECURSIVE _sanitize_links_any_key(_)
_sanitize_links_any_key(obj) ==
  CASE IsObj(obj) ->
         JObj([i \in 1..Len(obj[2]) |->
                 LET k == obj[2][i][1]
                     v == obj[2][i][2]
                 IN IF IsStr(v)
                    THEN <<k, JStr(_normalize_url(v[2]))>>
                    ELSE <<k, _sanitize_links_any_key(v)>>])
    [] IsArr(obj) ->
         JArr([i \in 1..Len(obj[2]) |-> _sanitize_links_any_key(obj[2][i])])
    [] OTHER -> obj

\* _sanitize_links(obj)
RECURSIVE _sanitize_links(_)
_sanitize_links(obj) ==
  CASE IsObj(obj) ->
         JObj([i \in 1..Len(obj[2]) |->
                 LET k == obj[2][i][1]
                     v == obj[2][i][2]
                 IN IF k = UrlKey /\ IsStr(v)
                    THEN <<k, JStr(_normalize_url(v[2]))>>
                    ELSE <<k, _sanitize_links(v)>>])
    [] IsArr(obj) ->
         JArr([i \in 1..Len(obj[2]) |-> _sanitize_links(obj[2][i])])
    [] OTHER -> obj

\* Variant: no try/except around the attempt.
sanitize_json_str_uncaught(raw) ==
  IF ~IsStr(raw) \/ strip(raw[2]) = <<>> THEN Return(raw)
  ELSE
    LET e == _extract_first_json_value(raw)
    IN IF e.raised THEN Raise
       ELSE Return(JStr(dumps(_sanitize_links(e.val))))

\* sanitize_json_str(raw): every exception of the attempt is caught.
sanitize_json_str(raw) ==
  IF ~IsStr(raw) \/ strip(raw[2]) = <<>> THEN Return(raw)
  ELSE
    LET e == _extract_first_json_value(raw)
    IN IF e.raised THEN Return(raw)
       ELSE Return(JStr(dumps(_sanitize_links(e.val))))

----------------------------------------------------------------------------
(* Bounded input sets for the pure functions                                *)

MaxUrlLen == 3
MaxDepth == 2

Strings(A, n) == UNION {[1..m -> A] : m \in 0..n}

\* Candidate url texts: a letter, punctuation the normalizer strips, blanks.
UrlAlphabet == {"a", ".", " ", ")"}
UrlStrings == Strings(UrlAlphabet, MaxUrlLen)

OtherKey == <<"a">>
UrlsKey == <<"u", "r", "l", "s">>

StrSamples ==
  { <<"a">>, <<"a", ".">>, <<"a", ".", " ", ".">>, <<" ", "a", ")">> }
Scalars == {JNull, JNum(1)} \cup {JStr(s) : s \in StrSamples}
Siblings == {JNum(1), JStr(<<"a", ".">>)}

\* Nested mappings / sequences / scalars up to depth d.
RECURSIVE Trees(_)
Trees(d) ==
  IF d = 0 THEN Scalars
  ELSE LET T == Trees(d - 1)
       IN Scalars
            \cup {JArr(<<>>), JObj(<<>>)}
            \cup {JArr(<<x>>) : x \in T}
            \cup {JArr(<<x, y>>) : x \in T, y \in Siblings}
            \cup {JObj(<< <<UrlKey, x>> >>) : x \in T}
            \cup {JObj(<< <<OtherKey, x>> >>) : x \in T}
            \cup {JObj(<< <<UrlsKey, y>> >>) : y \in Siblings}
            \cup {JObj(<< <<UrlKey, x>>, <<OtherKey, y>> >>) : x \in T, y \in Siblings}
            \cup {JObj(<< <<OtherKey, y>>, <<UrlKey, x>> >>) : x \in T, y \in Siblings}

\* JSON objects and arrays embedded in noisy text.
Docs ==
  { JObj(<<>>), JArr(<<>>),
    JObj(<< <<OtherKey, JNum(1)>> >>),
    JObj(<< <<UrlKey, JStr(<<"a", ".">>)>> >>),
    JArr(<<JNum(1), JObj(<< <<OtherKey, JStr(<<"}">>)>> >>)>>),
    JObj(<< <<OtherKey, JStr(FenceJson)>> >>),
    JArr(<<JStr(<<DQ, BSL>>), JStr(<<"\n">>)>>) }

\* Leading commentary: text with no "{" or "[" that does not open a fence.
Prefixes ==
  { <<>>, <<"a", ":", " ">>, <<"\n", " ", "a", "\n">>, <<DQ>>,
    <<"a", " ">> \o FenceJson \o <<" ">> }

Trailers ==
  { <<>>, dumps(JObj(<< <<OtherKey, JNum(2)>> >>)), <<"\n">> \o Fence,
    <<" ", "a">>, <<"}">>, <<",">>, <<"]", " ">> }

FenceOpen(tag) ==
  IF tag = "json" THEN FenceJson \o <<"\n">> ELSE Fence \o <<"\n">>
FenceClose == <<"\n">> \o Fence

NotJson ==
  <<"n", "o", "t", " ", "j", "s", "o", "n", " ", "a", "t", " ", "a", "l", "l">>

\* Arguments that are no string, blank, or hold no decodable JSON value.
RawInputs ==
  { JNull, JNum(0), JNum(5), JBool(TRUE), JArr(<<>>), JArr(<<JNum(1)>>),
    JObj(<<>>),
    JStr(<<>>), JStr(<<" ">>), JStr(<<"\n", "\t">>),
    JStr(NotJson),
    JStr(<<"{", DQ, "a", DQ, ":">>),
    JStr(<<"[", "1", ",">>),
    JStr(<<"[", "1", ",", "]">>),
    JStr(<<"{", "a", "}">>),
    JStr(<<"{", DQ, "a", DQ, " ", "1", "}">>),
    JStr(<<"{", DQ, "a", DQ, ":", DQ, "\n", DQ, "}">>),
    JStr(<<"[">>),
    JStr(Fence), JStr(FenceJson),
    JStr(<<"a", " ", "[", "1", "]", " ", "a">>) }

----------------------------------------------------------------------------
(* State                                                                    *)

VARIABLES
  kind,         \* how the argument of the sanitizer call was built
  pre,          \* text put before the encoded document
  doc,          \* the document encoded into the argument (JNull when none)
  post,         \* text put after the encoded document
  arg,          \* the argument of the call
  fn,           \* the function applied so far ("none" before the call)
  ret,          \* outcome of the last call
  ret1,         \* outcome of the first call when a second one followed
  pc,           \* position of each stage of the pipeline
  state,        \* session state: output key -> value
  produced,     \* what each stage's generation wrote under its key
  run,          \* the pipeline: "running", "completed" or "failed"
  toolStatus,   \* outcome of each retrieval provider call
  ctxHasAgent,  \* callback_context carries an `agent` attribute
  stateIsDict   \* callback_context.state is a dict

sanVars == <<kind, pre, doc, post, arg, fn, ret, ret1>>
pipeVars == <<pc, state, produced, run, toolStatus, ctxHasAgent, stateIsDict>>
vars == <<kind, pre, doc, post, arg, fn, ret, ret1,
          pc, state, produced, run, toolStatus, ctxHasAgent, stateIsDict>>

----------------------------------------------------------------------------
(* Calls of the sanitizers on the bounded inputs                            *)

NoRet == Return(JNull)

SanIdle ==
  /\ kind = "none" /\ pre = <<>> /\ doc = JNull /\ post = <<>>
  /\ arg = JNull /\ fn = "none" /\ ret = NoRet /\ ret1 = NoRet

SanInit ==
  /\ fn = "none" /\ ret = NoRet /\ ret1 = NoRet
  /\ \/ /\ kind = "url"
        /\ pre = <<>> /\ doc = JNull /\ post = <<>>
        /\ arg \in {JStr(u) : u \in UrlStrings}
     \/ /\ kind = "tree"
        /\ pre = <<>> /\ doc = JNull /\ post = <<>>
        /\ arg \in Trees(MaxDepth)
     \/ /\ kind = "raw"
        /\ pre = <<>> /\ doc = JNull /\ post = <<>>
        /\ arg \in RawInputs
     \/ /\ kind = "encoded"
        /\ pre = <<>> /\ post = <<>>
        /\ doc \in Trees(MaxDepth)
        /\ arg = JStr(dumps(doc))
     \/ /\ kind = "embedded"
        /\ pre \in Prefixes /\ doc \in Docs /\ post \in Trailers
        /\ arg = JStr(pre \o dumps(doc) \o post)
     \/ /\ kind = "fenced"
        /\ pre \in {FenceOpen("json"), FenceOpen("bare")}
        /\ doc \in Docs
        /\ post = FenceClose
        /\ arg = JStr(pre \o dumps(doc) \o post)

CallNormalizeUrl ==
  /\ fn = "none" /\ kind = "url"
  /\ ret' = Return(JStr(_normalize_url(arg[2])))
  /\ fn' = "_normalize_url"
  /\ UNCHANGED <<kind, pre, doc, post, arg, ret1>>
  /\ UNCHANGED pipeVars

CallSanitizeLinks ==
  /\ fn = "none" /\ kind = "tree"
  /\ ret' = Return(_sanitize_links(arg))
  /\ fn' = "_sanitize_links"
  /\ UNCHANGED <<kind, pre, doc, post, arg, ret1>>
  /\ UNCHANGED pipeVars

CallExtract ==
  /\ fn = "none"
  /\ ret' = _extract_first_json_value(arg)
  /\ fn' = "_extract_first_json_value"
  /\ UNCHANGED <<kind, pre, doc, post, arg, ret1>>
  /\ UNCHANGED pipeVars

CallSanitize ==
  /\ fn = "none"
  /\ ret' = sanitize_json_str(arg)
  /\ fn' = "sanitize_json_str"
  /\ UNCHANGED <<kind, pre, doc, post, arg, ret1>>
  /\ UNCHANGED pipeVars

\* The result of one sanitization is sanitized again.
CallSanitizeAgain ==
  /\ fn = "sanitize_json_str" /\ ~ret.raised
  /\ ret1' = ret
  /\ ret' = sanitize_json_str(ret.val)
  /\ fn' = "sanitize_twice"
  /\ UNCHANGED <<kind, pre, doc, post, arg>>
  /\ UNCHANGED pipeVars

SanNext ==
  \/ CallNormalizeUrl
  \/ CallSanitizeLinks
  \/ CallExtract
  \/ CallSanitize
  \/ CallSanitizeAgain

----------------------------------------------------------------------------
(* The pipeline: Planner -> ParallelResearch(paper, repo, blog) -> Analyst  *)

Planner == "PlannerAgent"
Paper == "PaperAgent"
Repo == "RepoAgent"
Blog == "BlogAgent"
Analyst == "AnalystAgent"

\* sub_agents of parallel_research_agent
Branches == {Paper, Repo, Blog}
\* sub_agents of research_pipeline, flattened
Stages == {Planner, Analyst} \cup Branches

Keys ==
  {"plan_json", "papers_result", "repos_result", "blogs_result",
   "final_summary"}

\* Variant: RepoAgent built with PaperAgent's output_key.
OutputKeyPasted(s) ==
  CASE s = Planner -> "plan_json"
    [] s = Paper -> "papers_result"
    [] s = Repo -> "papers_result"
    [] s = Blog -> "blogs_result"
    [] s = Analyst -> "final_summary"

\* output_key of each LlmAgent
OutputKey(s) ==
  CASE s = Planner -> "plan_json"
    [] s = Paper -> "papers_result"
    [] s = Repo -> "repos_result"
    [] s = Blog -> "blogs_result"
    [] s = Analyst -> "final_summary"

\* Agents built with tools=[search_papers_tool] / tools=[search_repos_tool]
Providers == {Paper, Repo}

\* A key that was never written; state.get(key) is None.
Missing == <<"missing">>

Active == {"running", "produced"}

PlanDoc == JObj(<< <<OtherKey, JNum(1)>> >>)
ResultDoc == JObj(<< <<UrlKey, JStr(<<"a", ")">>)>> >>)

\* Text a generation stage may produce (Missing: no text at all).
PlanOutputs ==
  { JStr(dumps(PlanDoc)),
    JStr(FenceOpen("json") \o dumps(PlanDoc) \o FenceClose) }

BranchOutputs ==
  { JStr(dumps(JObj(<< <<UrlKey, JStr(<<"a">>)>> >>))),
    JStr(FenceOpen("bare") \o dumps(ResultDoc) \o FenceClose),
    JStr(NotJson),
    Missing }

AnalystOutputs == { JStr(<<"a">>), JStr(<<" ", "a", "\n">>), Missing }

\* LlmAgent stores the final text under output_key; no text, no write.
SaveOutput(st, s, out) ==
  IF out = Missing THEN st ELSE [st EXCEPT ![OutputKey(s)] = out]

\* after_agent_sanitize_json(callback_context), as a function of the state
\* (every agent that carries the hook has a non-empty output_key).
after_agent_sanitize_json(st, s) ==
  IF ~ctxHasAgent \/ ~stateIsDict THEN st
  ELSE LET output_key == OutputKey(s)
           raw == st[output_key]
       IN IF IsStr(raw)
          THEN [st EXCEPT ![output_key] = sanitize_json_str(raw).val]
          ELSE st

\* after_agent_trim_final_summary(callback_context)
after_agent_trim_final_summary(st) ==
  IF ~stateIsDict THEN st
  ELSE LET fs == st["final_summary"]
       IN IF IsStr(fs)
          THEN [st EXCEPT !["final_summary"] = JStr(strip(fs[2]))]
          ELSE st

\* Variant: control is handed back as soon as one sub-agent has finished.
BarrierReleasedAny == \E b \in Branches : pc[b] = "done"

\* ParallelAgent hands control back once every sub-agent has finished.
BarrierReleased == \A b \in Branches : pc[b] = "done"

\* SequentialAgent runs the next sub-agent once the previous one finished.
PlanningFinished == pc[Planner] = "done"

PipeInit ==
  /\ pc = [s \in Stages |-> "idle"]
  /\ state = [k \in Keys |-> Missing]
  /\ produced = [s \in Stages |-> Missing]
  /\ run = "running"
  /\ toolStatus = [b \in Providers |-> "none"]
  /\ ctxHasAgent \in BOOLEAN
  /\ stateIsDict \in BOOLEAN

PipeIdle ==
  /\ pc = [s \in Stages |-> "idle"]
  /\ state = [k \in Keys |-> Missing]
  /\ produced = [s \in Stages |-> Missing]
  /\ run = "idle"
  /\ toolStatus = [b \in Providers |-> "none"]
  /\ ctxHasAgent = TRUE
  /\ stateIsDict = TRUE

PlannerStart ==
  /\ run = "running" /\ pc[Planner] = "idle"
  /\ pc' = [pc EXCEPT ![Planner] = "running"]
  /\ UNCHANGED <<state, produced, run, toolStatus, ctxHasAgent, stateIsDict>>
  /\ UNCHANGED sanVars

\* planner_agent has no after_agent_callback: it is finished once it wrote.
PlannerGenerate ==
  /\ run = "running" /\ pc[Planner] = "running"
  /\ \E out \in PlanOutputs :
       /\ state' = SaveOutput(state, Planner, out)
       /\ produced' = [produced EXCEPT ![Planner] = out]
  /\ pc' = [pc EXCEPT ![Planner] = "done"]
  /\ UNCHANGED <<run, toolStatus, ctxHasAgent, stateIsDict>>
  /\ UNCHANGED sanVars

\* parallel_research_agent starts its three sub-agents together.
FanOutStart ==
  /\ run = "running" /\ PlanningFinished
  /\ \A b \in Branches : pc[b] = "idle"
  /\ pc' = [s \in Stages |-> IF s \in Branches THEN "running" ELSE pc[s]]
  /\ UNCHANGED <<state, produced, run, toolStatus, ctxHasAgent, stateIsDict>>
  /\ UNCHANGED sanVars

\* search_papers_func: httpx.get, then raise_for_status() returns or raises.
SearchPapers ==
  /\ run = "running" /\ pc[Paper] = "running" /\ toolStatus[Paper] = "none"
  /\ \E outcome \in {"ok", "raised"} :
       toolStatus' = [toolStatus EXCEPT ![Paper] = outcome]
  /\ UNCHANGED <<pc, state, produced, run, ctxHasAgent, stateIsDict>>
  /\ UNCHANGED sanVars

\* search_repos_func: httpx.get, then raise_for_status() returns or raises.
SearchRepos ==
  /\ run = "running" /\ pc[Repo] = "running" /\ toolStatus[Repo] = "none"
  /\ \E outcome \in {"ok", "raised"} :
       toolStatus' = [toolStatus EXCEPT ![Repo] = outcome]
  /\ UNCHANGED <<pc, state, produced, run, ctxHasAgent, stateIsDict>>
  /\ UNCHANGED sanVars

\* A retrieval agent writes its text under its output_key.
BranchGenerate(b) ==
  /\ run = "running" /\ pc[b] = "running"
  /\ \E out \in BranchOutputs :
       /\ state' = SaveOutput(state, b, out)
       /\ produced' = [produced EXCEPT ![b] = out]
  /\ pc' = [pc EXCEPT ![b] = "produced"]
  /\ UNCHANGED <<run, toolStatus, ctxHasAgent, stateIsDict>>
  /\ UNCHANGED sanVars

\* after_agent_callback=after_agent_sanitize_json of a retrieval agent
SanitizeHook(b) ==
  /\ run = "running" /\ pc[b] = "produced"
  /\ state' = after_agent_sanitize_json(state, b)
  /\ pc' = [pc EXCEPT ![b] = "done"]
  /\ UNCHANGED <<produced, run, toolStatus, ctxHasAgent, stateIsDict>>
  /\ UNCHANGED sanVars

\* The exception of a provider call is caught nowhere in the repository:
\* it can leave the branch, end the parallel agent and with it the pipeline.
BranchAbort(b) ==
  /\ run = "running" /\ pc[b] = "running"
  /\ b \in Providers /\ toolStatus[b] = "raised"
  /\ pc' = [s \in Stages |->
              IF s = b THEN "failed"
              ELSE IF s \in Branches /\ pc[s] \in Active THEN "cancelled"
              ELSE pc[s]]
  /\ run' = "failed"
  /\ UNCHANGED <<state, produced, toolStatus, ctxHasAgent, stateIsDict>>
  /\ UNCHANGED sanVars

AnalystStart ==
  /\ run = "running" /\ BarrierReleased /\ pc[Analyst] = "idle"
  /\ pc' = [pc EXCEPT ![Analyst] = "running"]
  /\ UNCHANGED <<state, produced, run, toolStatus, ctxHasAgent, stateIsDict>>
  /\ UNCHANGED sanVars

AnalystGenerate ==
  /\ run = "running" /\ pc[Analyst] = "running"
  /\ \E out \in AnalystOutputs :
       /\ state' = SaveOutput(state, Analyst, out)
       /\ produced' = [produced EXCEPT ![Analyst] = out]
  /\ pc' = [pc EXCEPT ![Analyst] = "produced"]
  /\ UNCHANGED <<run, toolStatus, ctxHasAgent, stateIsDict>>
  /\ UNCHANGED sanVars

\* after_agent_callback=after_agent_trim_final_summary; the pipeline ends.
TrimHook ==
  /\ run = "running" /\ pc[Analyst] = "produced"
  /\ state' = after_agent_trim_final_summary(state)
  /\ pc' = [pc EXCEPT ![Analyst] = "done"]
  /\ run' = "completed"
  /\ UNCHANGED <<produced, toolStatus, ctxHasAgent, stateIsDict>>
  /\ UNCHANGED sanVars

Next ==
  \/ PlannerStart
  \/ PlannerGenerate
  \/ FanOutStart
  \/ SearchPapers
  \/ SearchRepos
  \/ \E b \in Branches : BranchGenerate(b)
  \/ \E b \in Branches : SanitizeHook(b)
  \/ \E b \in Branches : BranchAbort(b)
  \/ AnalystStart
  \/ AnalystGenerate
  \/ TrimHook

Init == PipeInit /\ SanIdle
Spec == Init /\ [][Next]_vars

InitSan == SanInit /\ PipeIdle
SanSpec == InitSan /\ [][SanNext]_vars

----------------------------------------------------------------------------
(* Properties of the sanitizers (checked under SanSpec)                     *)

IsContainer(t) == IsObj(t) \/ IsArr(t)
Child(t, i) == IF IsObj(t) THEN t[2][i][2] ELSE t[2][i]

RECURSIVE Paths(_)
Paths(t) ==
  {<<>>} \cup
    (IF IsContainer(t)
     THEN UNION {{<<i>> \o p : p \in Paths(Child(t, i))} : i \in 1..Len(t[2])}
     ELSE {})

RECURSIVE NodeAt(_, _)
NodeAt(t, p) == IF p = <<>> THEN t ELSE NodeAt(Child(t, Head(p)), Tail(p))

KeysOf(t) == IF IsObj(t) THEN [i \in 1..Len(t[2]) |-> t[2][i][1]] ELSE <<>>

\* The node at p is the string value of a mapping entry whose key is "url".
IsUrlEntry(t, p) ==
  /\ p # <<>>
  /\ IsStr(NodeAt(t, p))
  /\ LET parent == NodeAt(t, SubSeq(p, 1, Len(p) - 1))
     IN IsObj(parent) /\ parent[2][p[Len(p)]][1] = <<"u", "r", "l">>

NoTrailingPunct(u) ==
  u = <<>> \/ u[Len(u)] \notin {")", "]", ".", ",", ";", DQ, "'"}

\* C1: sanitize_json_str never raises, and returns its argument unchanged
\* whenever the argument is no string, is blank, or holds no JSON value
\* that _extract_first_json_value can recover.
C1_FailOpen ==
  /\ fn \in {"sanitize_json_str", "sanitize_twice"} => ~ret.raised
  /\ fn = "sanitize_json_str" =>
       ((\/ ~IsStr(arg)
         \/ strip(arg[2]) = <<>>
         \/ _extract_first_json_value(arg).raised) => ret = Return(arg))

C1_Witness ==
  /\ fn = "sanitize_json_str"
  /\ arg = JStr(NotJson)
  /\ ret = Return(JStr(NotJson))

\* C2: sanitizing the encoding of a value twice gives what sanitizing it
\* once gives.
C2_Idempotent ==
  (fn = "sanitize_twice" /\ kind = "encoded") => ret = ret1

\* C3: _normalize_url returns the empty string or a string whose last
\* character is no trailing punctuation, so no string-valued url entry of a
\* document that went through _sanitize_links ends in such a character.
C3_NoTrailingPunct ==
  /\ fn = "_normalize_url" => NoTrailingPunct(ret.val[2])
  /\ fn = "_sanitize_links" =>
       \A p \in Paths(ret.val) :
         IsUrlEntry(ret.val, p) => NoTrailingPunct(NodeAt(ret.val, p)[2])

\* C4: from commentary + encode(v) + trailing text, with v an object or an
\* array and no "{" or "[" in the commentary, _extract_first_json_value
\* returns exactly v.
C4_FirstValue ==
  (fn = "_extract_first_json_value" /\ kind = "embedded") => ret = Return(doc)

C4_Witness ==
  /\ fn = "_extract_first_json_value" /\ kind = "embedded"
  /\ pre = <<"a", ":", " ">>
  /\ doc = JArr(<<JNum(1), JObj(<< <<OtherKey, JStr(<<"}">>)>> >>)>>)
  /\ post = dumps(JObj(<< <<OtherKey, JNum(2)>> >>))
  /\ ret = Return(doc)

\* C5: from v wrapped in a json-tagged fence and from v wrapped in a bare
\* fence, _extract_first_json_value returns exactly v.
C5_FenceForms ==
  (fn = "_extract_first_json_value" /\ kind = "fenced") => ret = Return(doc)

\* C10: _sanitize_links keeps the shape of the tree (same paths, same
\* container kinds, same keys in the same order, same lengths) and every
\* scalar, except that a string under a key "url" becomes its
\* _normalize_url.
C10_LinksFrame ==
  fn = "_sanitize_links" =>
    /\ ~ret.raised
    /\ Paths(ret.val) = Paths(arg)
    /\ \A p \in Paths(arg) :
         LET a == NodeAt(arg, p)
             b == NodeAt(ret.val, p)
         IN /\ b[1] = a[1]
            /\ KeysOf(b) = KeysOf(a)
            /\ IsContainer(a) => Len(b[2]) = Len(a[2])
            /\ ~IsContainer(a) =>
                 b = IF IsUrlEntry(arg, p)
                     THEN JStr(_normalize_url(a[2]))
                     ELSE a

C10_Witness ==
  /\ fn = "_sanitize_links"
  /\ arg = JObj(<< <<OtherKey, JStr(<<"a", ".">>)>>,
                   <<UrlKey, JObj(<< <<UrlKey, JStr(<<" ", "a", ")">>)>> >>)>> >>)
  /\ ret.val = JObj(<< <<OtherKey, JStr(<<"a", ".">>)>>,
                       <<UrlKey, JObj(<< <<UrlKey, JStr(<<"a">>)>> >>)>> >>)

----------------------------------------------------------------------------
(* Properties of the pipeline (checked under Spec)                          *)

Owner(k) ==
  CASE k = "plan_json" -> "PlannerAgent"
    [] k = "papers_result" -> "PaperAgent"
    [] k = "repos_result" -> "RepoAgent"
    [] k = "blogs_result" -> "BlogAgent"
    [] k = "final_summary" -> "AnalystAgent"

KeyOwnedBy(s) == CHOOSE k \in Keys : Owner(k) = s

\* C6: the analyst does not start before all three branches have finished,
\* hooks included; no branch starts before the planner has finished; the
\* planner and the analyst each run while no other stage is running.
C6_Ordering ==
  /\ pc["AnalystAgent"] # "idle" =>
       \A b \in {"PaperAgent", "RepoAgent", "BlogAgent"} : pc[b] = "done"
  /\ \A b \in {"PaperAgent", "RepoAgent", "BlogAgent"} :
       pc[b] # "idle" => pc["PlannerAgent"] = "done"
  /\ pc["PlannerAgent"] \in Active =>
       \A s \in Stages \ {"PlannerAgent"} : pc[s] = "idle"
  /\ pc["AnalystAgent"] \in Active =>
       \A s \in Stages \ {"AnalystAgent"} : pc[s] \notin Active

C6_Witness ==
  /\ pc["AnalystAgent"] = "running"
  /\ \A b \in Branches : pc[b] = "done"
  /\ state["papers_result"] # produced["PaperAgent"]

\* C7: when exactly one provider call raised, the pipeline still ends with
\* the other two branches finished, their text stored under their keys, and
\* the analyst run (stated for runs whose callback context is the one the
\* hooks expect).
C7_Isolation ==
  (ctxHasAgent /\ stateIsDict /\ run # "running"
     /\ Cardinality({b \in Providers : toolStatus[b] = "raised"}) = 1) =>
    /\ pc["AnalystAgent"] = "done"
    /\ \A b \in Branches :
         (b \notin Providers \/ toolStatus[b] # "raised") =>
           /\ pc[b] = "done"
           /\ IsStr(produced[b]) => IsStr(state[KeyOwnedBy(b)])

\* C8: once the planner or a retrieval stage has finished, the value under
\* its output key is sanitize_json_str of the text the stage produced
\* (stated for runs whose callback context is the one the hooks expect).
C8_HookApplied ==
  (ctxHasAgent /\ stateIsDict) =>
  \A k \in {"plan_json", "papers_result", "repos_result", "blogs_result"} :
    (pc[Owner(k)] = "done" /\ IsStr(produced[Owner(k)])) =>
      state[k] = sanitize_json_str(produced[Owner(k)]).val

\* C9: a key changes only in a step of its owning stage, taken while that
\* stage is running or in its hook; hence never after the stage finished.
C9_KeyOwnership ==
  [][\A k \in Keys :
       state'[k] # state[k] =>
         /\ pc[Owner(k)] \in Active
         /\ pc'[Owner(k)] # pc[Owner(k)]
         /\ \A s \in Stages \ {Owner(k)} : pc'[s] = pc[s]]_vars

C9_Witness ==
  /\ run = "completed"
  /\ \A k \in Keys : state[k] # Missing
  /\ state["repos_result"] # produced["RepoAgent"]
  /\ state["final_summary"] # produced["AnalystAgent"]

====
